---- MODULE Spec2Model ----
(***************************************************************************)
(* A model of the rust-state-machine runtime: the System pallet            *)
(* (src/src/system.rs), the Balances pallet (src/src/balances.rs) and      *)
(* Runtime::execute_block / Runtime::dispatch (src/src/main.rs).           *)
(*                                                                         *)
(* execute_block is single-threaded; it is split into its statements       *)
(* (the block-number check, one loop iteration per extrinsic, the final    *)
(* Ok(())) and nothing else can run between them.  The extrinsics of a     *)
(* block are an input: the block declares its header and its length when   *)
(* it is submitted, and the extrinsic at each index is drawn when the      *)
(* loop's iterator yields it.                                              *)
(*                                                                         *)
(* Balance is u128 in the source.  The model keeps the checked arithmetic  *)
(* and scales the width: Balance ranges over 0..balance_max, which is      *)
(* MaxBalance under Spec.  The u32 counters (block number, nonce) are      *)
(* plain naturals under Spec: the bounds on the number of blocks and       *)
(* extrinsics keep them far from 2^32.  SpecOverflow narrows the block     *)
(* number to 0..BlockNumberMax and runs the increment into its overflow.   *)
(***************************************************************************)
EXTENDS Integers, Sequences, FiniteSets, TLC

\* ---- bounds of the model ------------------------------------------------
MaxBalance == 2
MaxOps == 4

\* ---- input domains ------------------------------------------------------
Accounts == {"alice", "bob", "charlie"}
Amounts == 0..MaxBalance
Contents == {"I did that"}
BlockNumbers == 0..MaxOps

TransferCalls == [pallet : {"Balances"}, to : Accounts, amount : Amounts]
CreateClaimCalls == [pallet : {"ProofOfExistence"}, claim : Contents]
RuntimeCall == TransferCalls \cup CreateClaimCalls

VARIABLES
    block_number,   \* system::Pallet.block_number
    nonce,          \* system::Pallet.nonce, a map with absent entries
    balances,       \* balances::Pallet.balances, a map with absent entries
    claims,         \* proof_of_existence::Pallet's claim -> owner map
    pc,             \* where execute_block stands
    block,          \* the submitted block: its header and its length
    i,              \* the loop index of execute_block
    result,         \* what the last execute_block returned
    last,           \* history: the last operation on the ledger (a bootstrap
                    \* set_balance, or the extrinsic of the last loop
                    \* iteration), the ledger before it and, for an extrinsic,
                    \* the system pallet when dispatch was entered
    pre,            \* history: the runtime when execute_block was called,
                    \* how the call before it ended (after) and the block
                    \* number when that call was made (before)
    originated,     \* history: extrinsics originated, per account
    failed,         \* history: failed dispatches of the current block
    supply,         \* history: the total balance seeded by the bootstrap
    attempted,      \* history: the indices the loop has attempted, in order
    expected,       \* history: the ledger with the block's transfers applied
                    \* one by one, a failing one skipped
    ops,            \* history: set_balance calls, execute_block calls and
                    \* extrinsics so far
    balance_max,    \* the largest value of T::Balance in this run
    observed        \* history: what the last read accessor returned

vars == <<block_number, nonce, balances, claims, pc, block, i, result, last,
          pre, originated, failed, supply, attempted, expected, ops,
          balance_max, observed>>

\* ---- Option and Result values -------------------------------------------
None == <<>>
Some(v) == <<v>>
Ok == [tag |-> "Ok"]
InsufficientBalance == [tag |-> "InsufficientBalance"]
BalanceOverflow(who) == [tag |-> "BalanceOverflow", account |-> who]
ClaimAlreadyExists == [tag |-> "ClaimAlreadyExists"]
BlockNumberMismatch == [tag |-> "block number does not match what is expected"]
NoResult == [tag |-> "NoResult"]

\* ---- system.rs ----------------------------------------------------------
Zero == 0
One == 1

\* BTreeMap::get(who).unwrap_or(zero)
get_or_zero(map, who) == IF who \in DOMAIN map THEN map[who] ELSE Zero

\* BTreeMap::insert
insert(map, who, value) ==
    [a \in DOMAIN map \cup {who} |-> IF a = who THEN value ELSE map[a]]

\* inc_block_number adding one twice
inc_block_number_twice(n) == n + One + One

\* self.block_number += one(), before the result is fitted to the type
inc_block_number(n) == n + One

\* inc_nonce that stores one instead of the nonce it read plus one
inc_nonce_restart(map, caller) ==
    insert(map, caller, One)

inc_nonce(map, caller) ==
    LET n == get_or_zero(map, caller)
        new_nonce == n + One
    IN  insert(map, caller, new_nonce)

\* ---- balances.rs --------------------------------------------------------
checked_sub(x, y) == IF y > x THEN None ELSE Some(x - y)

checked_add(x, y) == IF x + y > balance_max THEN None ELSE Some(x + y)

\* set_balance that keeps an entry the account already has
set_balance_keep_existing(map, who, amount) ==
    IF who \in DOMAIN map THEN map ELSE insert(map, who, amount)

set_balance(map, who, amount) == insert(map, who, amount)

balance(map, who) == get_or_zero(map, who)

\* transfer with the caller's set_balance left out
transfer_no_debit(map, caller, to, amount) ==
    LET caller_balance == balance(map, caller)
        to_balance == balance(map, to)
        sub == checked_sub(caller_balance, amount)
        add == checked_add(to_balance, amount)
    IN  IF sub = None
        THEN [res |-> InsufficientBalance, balances |-> map]
        ELSE IF add = None
        THEN [res |-> BalanceOverflow(to), balances |-> map]
        ELSE [res |-> Ok, balances |-> set_balance(map, to, add[1])]

\* transfer that stores the caller's new balance before the checked_add
transfer_debit_before_add(map, caller, to, amount) ==
    LET caller_balance == balance(map, caller)
        sub == checked_sub(caller_balance, amount)
    IN  IF sub = None
        THEN [res |-> InsufficientBalance, balances |-> map]
        ELSE LET debited == set_balance(map, caller, sub[1])
                 add == checked_add(balance(map, to), amount)
             IN  IF add = None
                 THEN [res |-> BalanceOverflow(to), balances |-> debited]
                 ELSE [res |-> Ok,
                       balances |-> set_balance(debited, to, add[1])]

\* transfer with the checked_add ahead of the checked_sub
transfer_add_first(map, caller, to, amount) ==
    LET caller_balance == balance(map, caller)
        to_balance == balance(map, to)
        sub == checked_sub(caller_balance, amount)
        add == checked_add(to_balance, amount)
    IN  IF add = None
        THEN [res |-> BalanceOverflow(to), balances |-> map]
        ELSE IF sub = None
        THEN [res |-> InsufficientBalance, balances |-> map]
        ELSE [res |-> Ok,
              balances |-> set_balance(set_balance(map, caller, sub[1]),
                                       to, add[1])]

\* transfer with caller and to exchanged: the recipient is debited
transfer_debits_recipient(map, caller, to, amount) ==
    LET caller_balance == balance(map, to)
        to_balance == balance(map, caller)
        sub == checked_sub(caller_balance, amount)
        add == checked_add(to_balance, amount)
    IN  IF sub = None
        THEN [res |-> InsufficientBalance, balances |-> map]
        ELSE IF add = None
        THEN [res |-> BalanceOverflow(caller), balances |-> map]
        ELSE [res |-> Ok,
              balances |-> set_balance(set_balance(map, to, sub[1]),
                                       caller, add[1])]

transfer(map, caller, to, amount) ==
    LET caller_balance == balance(map, caller)
        to_balance == balance(map, to)
        sub == checked_sub(caller_balance, amount)
        add == checked_add(to_balance, amount)
    IN  IF sub = None
        THEN [res |-> InsufficientBalance, balances |-> map]
        ELSE IF add = None
        THEN [res |-> BalanceOverflow(to), balances |-> map]
        ELSE [res |-> Ok,
              balances |-> set_balance(set_balance(map, caller, sub[1]),
                                       to, add[1])]

\* ---- init ---------------------------------------------------------------
EmptyMap == [a \in {} |-> 0]
NoBlock == [header |-> [block_number |-> 0], len |-> 0]
NoExtrinsic == [kind |-> "none"]
NoRead == [kind |-> "none"]

\* Runtime::new() under a Config whose Balance has the largest value `limit`
New(limit) ==
    /\ block_number = Zero
    /\ nonce = EmptyMap
    /\ balances = EmptyMap
    /\ claims = EmptyMap
    /\ pc = "Boot"
    /\ block = NoBlock
    /\ i = 0
    /\ result = NoResult
    /\ last = NoExtrinsic
    /\ pre = [block_number |-> Zero, nonce |-> EmptyMap, balances |-> EmptyMap,
              after |-> "Boot", before |-> Zero]
    /\ originated = [a \in Accounts |-> 0]
    /\ failed = 0
    /\ supply = 0
    /\ attempted = <<>>
    /\ expected = EmptyMap
    /\ ops = 0
    /\ balance_max = limit
    /\ observed = NoRead

Init == New(MaxBalance)

\* ---- bootstrap: runtime.balances.set_balance(&alice, 100) ---------------
RECURSIVE SumOver(_, _)
SumOver(map, S) ==
    IF S = {} THEN 0
    ELSE LET a == CHOOSE x \in S : TRUE
         IN  balance(map, a) + SumOver(map, S \ {a})

TotalBalance(map) == SumOver(map, Accounts)

SetBalance(who, amount) ==
    /\ pc = "Boot"
    /\ ops < MaxOps
    /\ balances' = set_balance(balances, who, amount)
    /\ supply' = TotalBalance(balances')
    /\ last' = [kind |-> "set_balance", who |-> who, amount |-> amount,
                balances |-> balances]
    /\ ops' = ops + 1
    /\ UNCHANGED <<block_number, nonce, claims, pc, block, i, result, pre,
                   originated, failed, attempted, expected,
                   balance_max, observed>>

\* ---- the pallets' dispatch ----------------------------------------------
\* balances::Call::Transfer { to, amount } forwarded with the runtime's caller
balances_dispatch(map, caller, call) ==
    transfer(map, caller, call.to, call.amount)

\* proof_of_existence::Call::CreateClaim { claim }
create_claim(map, caller, claim) ==
    IF claim \in DOMAIN map
    THEN [res |-> ClaimAlreadyExists, claims |-> map]
    ELSE [res |-> Ok, claims |-> insert(map, claim, caller)]

proof_of_existence_dispatch(map, caller, call) ==
    create_claim(map, caller, call.claim)

\* The Runtime: its three pallets
Runtime(bn, nc, bal, cl) ==
    [system |-> [block_number |-> bn, nonce |-> nc],
     balances |-> bal,
     proof_of_existence |-> cl]

\* dispatch that does what its comment says: it increments the caller's nonce
dispatch_inc_nonce(self, caller, runtime_call) ==
    LET counted == [self EXCEPT !.system.nonce = inc_nonce(@, caller)]
    IN  IF runtime_call.pallet = "Balances"
        THEN LET r == balances_dispatch(self.balances, caller, runtime_call)
             IN  [res |-> r.res,
                  self |-> [counted EXCEPT !.balances = r.balances]]
        ELSE LET r == proof_of_existence_dispatch(self.proof_of_existence,
                                                  caller, runtime_call)
             IN  [res |-> r.res,
                  self |-> [counted EXCEPT !.proof_of_existence = r.claims]]

\* Runtime::dispatch(&mut self, caller, runtime_call): match on the call's
\* pallet and forward caller and call to it; self.system is not touched
dispatch(self, caller, runtime_call) ==
    IF runtime_call.pallet = "Balances"
    THEN LET r == balances_dispatch(self.balances, caller, runtime_call)
         IN  [res |-> r.res, self |-> [self EXCEPT !.balances = r.balances]]
    ELSE LET r == proof_of_existence_dispatch(self.proof_of_existence,
                                              caller, runtime_call)
         IN  [res |-> r.res,
              self |-> [self EXCEPT !.proof_of_existence = r.claims]]

\* The ledger after one extrinsic, a failing transfer being a no-op
apply_or_skip(map, caller, call) ==
    IF call.pallet # "Balances" THEN map
    ELSE LET r == transfer(map, caller, call.to, call.amount)
         IN  IF r.res = Ok THEN r.balances ELSE map

\* ---- Runtime::execute_block ---------------------------------------------
\* The call: execute_block(block) is entered with a block of `len` extrinsics
\* whose header declares `number`.
SubmitBlock(number, len) ==
    /\ pc \in {"Boot", "Aborted", "Completed"}
    /\ ops + 1 + len <= MaxOps
    /\ pc' = "Pending"
    /\ block' = [header |-> [block_number |-> number], len |-> len]
    /\ i' = 0
    /\ result' = NoResult
    /\ last' = NoExtrinsic
    /\ pre' = [block_number |-> block_number, nonce |-> nonce,
               balances |-> balances, after |-> pc,
               before |-> pre.block_number]
    /\ failed' = 0
    /\ attempted' = <<>>
    /\ expected' = balances
    /\ ops' = ops + 1 + len
    /\ UNCHANGED <<block_number, nonce, balances, claims, originated,
                   supply,
                   balance_max, observed>>

\* the check without its return: the loop runs whatever the header says
CheckBlockNumber_no_return ==
    /\ pc = "Pending"
    /\ block_number' = inc_block_number(block_number)
    /\ pc' = "NumberValidated"
    /\ UNCHANGED <<result, nonce, balances, claims, block, i, last, pre,
                   originated, failed, supply, attempted, expected, ops,
                   balance_max, observed>>

\* the check undoing its increment when it rejects the block
CheckBlockNumber_rollback ==
    /\ pc = "Pending"
    /\ IF block.header.block_number # inc_block_number(block_number)
       THEN /\ pc' = "Aborted"
            /\ result' = BlockNumberMismatch
            /\ UNCHANGED block_number
       ELSE /\ pc' = "NumberValidated"
            /\ block_number' = inc_block_number(block_number)
            /\ UNCHANGED result
    /\ UNCHANGED <<nonce, balances, claims, block, i, last, pre, originated,
                   failed, supply, attempted, expected, ops,
                   balance_max, observed>>

\* self.system.inc_block_number(); if header != block_number { return Err }
CheckBlockNumber ==
    /\ pc = "Pending"
    /\ block_number' = inc_block_number(block_number)
    /\ IF block.header.block_number # block_number'
       THEN /\ pc' = "Aborted"
            /\ result' = BlockNumberMismatch
       ELSE /\ pc' = "NumberValidated"
            /\ UNCHANGED result
    /\ UNCHANGED <<nonce, balances, claims, block, i, last, pre, originated,
                   failed, supply, attempted, expected, ops,
                   balance_max, observed>>

\* the iteration with inc_nonce after a successful dispatch only
ApplyExtrinsic_nonce_on_success(caller, call) ==
    /\ pc = "NumberValidated"
    /\ i < block.len
    /\ LET counted == Runtime(block_number, nonce, balances, claims)
           r == dispatch(counted, caller, call)
       IN  /\ block_number' = r.self.system.block_number
           /\ nonce' = IF r.res = Ok THEN inc_nonce(r.self.system.nonce, caller)
                       ELSE r.self.system.nonce
           /\ balances' = r.self.balances
           /\ claims' = r.self.proof_of_existence
           /\ last' = [kind |-> "extrinsic", index |-> i, caller |-> caller,
                       call |-> call, balances |-> balances,
                       system |-> counted.system, res |-> r.res]
           /\ failed' = IF r.res = Ok THEN failed ELSE failed + 1
    /\ i' = i + 1
    /\ originated' = [originated EXCEPT ![caller] = @ + 1]
    /\ attempted' = Append(attempted, i)
    /\ expected' = apply_or_skip(expected, caller, call)
    /\ UNCHANGED <<pc, block, result, pre, supply, ops,
                   balance_max, observed>>

\* the iteration leaving the loop at the first failing dispatch
ApplyExtrinsic_stop_on_failure(caller, call) ==
    /\ pc = "NumberValidated"
    /\ i < block.len
    /\ LET counted == Runtime(block_number, inc_nonce(nonce, caller), balances, claims)
           r == dispatch(counted, caller, call)
       IN  /\ block_number' = r.self.system.block_number
           /\ nonce' = r.self.system.nonce
           /\ balances' = r.self.balances
           /\ claims' = r.self.proof_of_existence
           /\ last' = [kind |-> "extrinsic", index |-> i, caller |-> caller,
                       call |-> call, balances |-> balances,
                       system |-> counted.system, res |-> r.res]
           /\ failed' = IF r.res = Ok THEN failed ELSE failed + 1
           /\ i' = IF r.res = Ok THEN i + 1 ELSE block.len
    /\ originated' = [originated EXCEPT ![caller] = @ + 1]
    /\ attempted' = Append(attempted, i)
    /\ expected' = apply_or_skip(expected, caller, call)
    /\ UNCHANGED <<pc, block, result, pre, supply, ops,
                   balance_max, observed>>

\* the iteration returning the Err of a failing dispatch (`?` on dispatch)
ApplyExtrinsic_return_on_failure(caller, call) ==
    /\ pc = "NumberValidated"
    /\ i < block.len
    /\ LET counted == Runtime(block_number, inc_nonce(nonce, caller), balances, claims)
           r == dispatch(counted, caller, call)
       IN  /\ block_number' = r.self.system.block_number
           /\ nonce' = r.self.system.nonce
           /\ balances' = r.self.balances
           /\ claims' = r.self.proof_of_existence
           /\ last' = [kind |-> "extrinsic", index |-> i, caller |-> caller,
                       call |-> call, balances |-> balances,
                       system |-> counted.system, res |-> r.res]
           /\ failed' = IF r.res = Ok THEN failed ELSE failed + 1
           /\ pc' = IF r.res = Ok THEN pc ELSE "Aborted"
           /\ result' = IF r.res = Ok THEN result ELSE r.res
    /\ i' = i + 1
    /\ originated' = [originated EXCEPT ![caller] = @ + 1]
    /\ attempted' = Append(attempted, i)
    /\ expected' = apply_or_skip(expected, caller, call)
    /\ UNCHANGED <<block, pre, supply, ops, balance_max, observed>>

\* One iteration of the loop: inc_nonce(&caller), then dispatch(caller, call);
\* an Err is printed and dropped.
ApplyExtrinsic(caller, call) ==
    /\ pc = "NumberValidated"
    /\ i < block.len
    /\ LET counted == Runtime(block_number, inc_nonce(nonce, caller), balances, claims)
           r == dispatch(counted, caller, call)
       IN  /\ block_number' = r.self.system.block_number
           /\ nonce' = r.self.system.nonce
           /\ balances' = r.self.balances
           /\ claims' = r.self.proof_of_existence
           /\ last' = [kind |-> "extrinsic", index |-> i, caller |-> caller,
                       call |-> call, balances |-> balances,
                       system |-> counted.system, res |-> r.res]
           /\ failed' = IF r.res = Ok THEN failed ELSE failed + 1
    /\ i' = i + 1
    /\ originated' = [originated EXCEPT ![caller] = @ + 1]
    /\ attempted' = Append(attempted, i)
    /\ expected' = apply_or_skip(expected, caller, call)
    /\ UNCHANGED <<pc, block, result, pre, supply, ops,
                   balance_max, observed>>

\* the return passing on a failed dispatch instead of Ok(())
ReturnOk_err_on_failure ==
    /\ pc = "NumberValidated"
    /\ i = block.len
    /\ pc' = "Completed"
    /\ result' = IF failed = 0 THEN Ok ELSE last.res
    /\ UNCHANGED <<block_number, nonce, balances, claims, block, i, last,
                   pre, originated, failed, supply, attempted, expected, ops,
                   balance_max, observed>>

\* The loop is over: Ok(())
ReturnOk ==
    /\ pc = "NumberValidated"
    /\ i = block.len
    /\ pc' = "Completed"
    /\ result' = Ok
    /\ UNCHANGED <<block_number, nonce, balances, claims, block, i, last,
                   pre, originated, failed, supply, attempted, expected, ops,
                   balance_max, observed>>

Next ==
    \/ \E who \in Accounts, amount \in Amounts : SetBalance(who, amount)
    \/ \E number \in BlockNumbers, len \in 0..MaxOps :
          SubmitBlock(number, len)
    \/ CheckBlockNumber
    \/ \E caller \in Accounts, call \in RuntimeCall :
          ApplyExtrinsic(caller, call)
    \/ ReturnOk

Spec == Init /\ [][Next]_vars

\* execute_block is synchronous and single-threaded: once entered, each of its
\* statements runs; nothing obliges the caller to submit a further block.
\* The same runtime with its inputs drawn from two accounts
LiveAccounts == {"alice", "bob"}
LiveCalls ==
    [pallet : {"Balances"}, to : LiveAccounts, amount : Amounts]
        \cup CreateClaimCalls

ExecuteBlockStep ==
    \/ CheckBlockNumber
    \/ \E caller \in LiveAccounts, call \in LiveCalls :
          ApplyExtrinsic(caller, call)
    \/ ReturnOk

ExecuteBlockRuns == WF_vars(ExecuteBlockStep)

NextLive ==
    \/ \E who \in LiveAccounts, amount \in Amounts : SetBalance(who, amount)
    \/ \E number \in BlockNumbers, len \in 0..MaxOps :
          SubmitBlock(number, len)
    \/ ExecuteBlockStep

SpecLive == Init /\ [][NextLive]_vars /\ ExecuteBlockRuns

(***************************************************************************)
(* Read accessors.  balance takes &self and returns                        *)
(* *self.balances.get(who).unwrap_or(&zero); the nonce map is read the     *)
(* same way in inc_nonce and in the init_system test.  A read is modelled  *)
(* by the value it returns together with the map it leaves behind, and is  *)
(* taken between operations as the last step of a run.                     *)
(***************************************************************************)
read_or_insert(map, who) ==
    [value |-> get_or_zero(map, who),
     map   |-> insert(map, who, get_or_zero(map, who))]

read(map, who) == [value |-> get_or_zero(map, who), map |-> map]

Idle == pc \in {"Boot", "Aborted", "Completed"}

ReadBalance(who) ==
    /\ Idle
    /\ observed = NoRead
    /\ LET r == read(balances, who)
       IN  /\ balances' = r.map
           /\ observed' = [kind   |-> "balance",
                           who    |-> who,
                           value  |-> r.value,
                           absent |-> who \notin DOMAIN balances]
    /\ UNCHANGED <<block_number, nonce, claims, pc, block, i, result, last,
                   pre, originated, failed, supply, attempted, expected, ops,
                   balance_max>>

ReadNonce(who) ==
    /\ Idle
    /\ observed = NoRead
    /\ LET r == read(nonce, who)
       IN  /\ nonce' = r.map
           /\ observed' = [kind   |-> "nonce",
                           who    |-> who,
                           value  |-> r.value,
                           absent |-> who \notin DOMAIN nonce]
    /\ UNCHANGED <<block_number, balances, claims, pc, block, i, result,
                   last, pre, originated, failed, supply, attempted, expected,
                   ops, balance_max>>

NextReads ==
    \/ observed = NoRead /\ NextLive
    \/ \E who \in Accounts : ReadBalance(who)
    \/ \E who \in Accounts : ReadNonce(who)

SpecReads == Init /\ [][NextReads]_vars


\* ---- execute_block under a narrow BlockNumber ----------------------------
\* T::BlockNumber is u32 in main.rs; here its largest value is BlockNumberMax,
\* so that a run reaches it.  `+=` on an unsigned integer that overflows
\* panics when the build checks overflow and wraps when it does not.
BlockNumberMax == 2

overflows(n) == inc_block_number(n) > BlockNumberMax

\* the increment does not overflow: the check as above
CheckBlockNumberInRange ==
    /\ ~overflows(block_number)
    /\ CheckBlockNumber

\* the increment overflows, overflow checks on: the thread panics
IncBlockNumberPanics ==
    /\ pc = "Pending"
    /\ overflows(block_number)
    /\ pc' = "Panicked"
    /\ UNCHANGED <<block_number, nonce, balances, claims, block, i, result,
                   last, pre, originated, failed, supply, attempted, expected,
                   ops, balance_max, observed>>

\* the increment overflows, overflow checks off: the counter wraps, and the
\* header is compared with the wrapped value
IncBlockNumberWraps ==
    /\ pc = "Pending"
    /\ overflows(block_number)
    /\ block_number' = inc_block_number(block_number) % (BlockNumberMax + 1)
    /\ IF block.header.block_number # block_number'
       THEN /\ pc' = "Aborted"
            /\ result' = BlockNumberMismatch
       ELSE /\ pc' = "NumberValidated"
            /\ UNCHANGED result
    /\ UNCHANGED <<nonce, balances, claims, block, i, last, pre, originated,
                   failed, supply, attempted, expected, ops, balance_max,
                   observed>>

NextOverflow ==
    \/ \E who \in Accounts, amount \in Amounts : SetBalance(who, amount)
    \/ \E number \in BlockNumbers, len \in 0..MaxOps :
          SubmitBlock(number, len)
    \/ CheckBlockNumberInRange
    \/ IncBlockNumberPanics
    \/ IncBlockNumberWraps
    \/ \E caller \in Accounts, call \in RuntimeCall :
          ApplyExtrinsic(caller, call)
    \/ ReturnOk

SpecOverflow == Init /\ [][NextOverflow]_vars

\* ---- main: the first block, under a Balance wide enough for it -----------
SeedAmount == 100
TransferAmount == 30
ScenarioMaxBalance == 200

alice == "alice"
bob == "bob"
charlie == "charlie"

Transfer(to, amount) == [pallet |-> "Balances", to |-> to, amount |-> amount]
Extrinsic(caller, call) == [caller |-> caller, call |-> call]

\* main's block 1
ScenarioABlock ==
    <<Extrinsic(alice, Transfer(bob, TransferAmount)),
      Extrinsic(alice, Transfer(charlie, TransferAmount))>>

\* the extrinsics a block of this specification is made of
ScenarioExtrinsics ==
    { Extrinsic(caller, call) :
        caller \in Accounts,
        call \in { Transfer(to, TransferAmount) : to \in Accounts }
                    \cup CreateClaimCalls }

ScenarioBlocks ==
    {<<>>} \cup { <<x>> : x \in ScenarioExtrinsics }
           \cup { <<x, y>> : x \in ScenarioExtrinsics, y \in ScenarioExtrinsics }

\* runtime.balances.set_balance(&alice, 100)
SeedAlice == SetBalance(alice, SeedAmount)

\* execute_block(block) entered with a block whose extrinsics are given
SubmitDeclared(number, extrinsics) ==
    /\ pc \in {"Boot", "Aborted", "Completed"}
    /\ ops + 1 + Len(extrinsics) <= MaxOps
    /\ pc' = "Pending"
    /\ block' = [header |-> [block_number |-> number],
                 len |-> Len(extrinsics), extrinsics |-> extrinsics]
    /\ i' = 0
    /\ result' = NoResult
    /\ last' = NoExtrinsic
    /\ pre' = [block_number |-> block_number, nonce |-> nonce,
               balances |-> balances, after |-> pc,
               before |-> pre.block_number]
    /\ failed' = 0
    /\ attempted' = <<>>
    /\ expected' = balances
    /\ ops' = ops + 1 + Len(extrinsics)
    /\ UNCHANGED <<block_number, nonce, balances, claims, originated,
                   supply, balance_max, observed>>

\* the loop iteration on the extrinsic the block holds at index i
ApplyDeclared ==
    /\ pc = "NumberValidated"
    /\ i < block.len
    /\ ApplyExtrinsic(block.extrinsics[i + 1].caller,
                      block.extrinsics[i + 1].call)

NextScenarioA ==
    \/ SeedAlice
    \/ \E number \in BlockNumbers, extrinsics \in ScenarioBlocks :
          SubmitDeclared(number, extrinsics)
    \/ CheckBlockNumber
    \/ ApplyDeclared
    \/ ReturnOk

SpecScenarioA == New(ScenarioMaxBalance) /\ [][NextScenarioA]_vars

\* =========================================================================
\* Properties
\* =========================================================================
LastIsTransfer == last.kind = "extrinsic" /\ last.call.pallet = "Balances"
InExecuteBlock == pc \in {"NumberValidated", "Aborted", "Completed"}
NumberMatches == block.header.block_number = pre.block_number + 1

\* C1: if transfer(A, B, X) returns Ok then balance(A) + balance(B) after the
\* call equals balance(A) + balance(B) before it, for all A and B, A = B
\* included.
C1_PairConserved ==
    (LastIsTransfer /\ last.res = Ok) =>
        balance(balances, last.caller) + balance(balances, last.call.to)
          = balance(last.balances, last.caller)
            + balance(last.balances, last.call.to)

\* C2: for distinct A and B, if transfer(A, B, X) returns Ok then A's balance
\* is its balance before minus X and B's balance is its balance before plus X.
C2_DistinctDebitCredit ==
    (LastIsTransfer /\ last.res = Ok /\ last.caller # last.call.to) =>
        /\ balance(balances, last.caller)
             = balance(last.balances, last.caller) - last.call.amount
        /\ balance(balances, last.call.to)
             = balance(last.balances, last.call.to) + last.call.amount

C2_Witness ==
    /\ LastIsTransfer
    /\ last.res = Ok
    /\ last.caller # last.call.to
    /\ last.call.amount > 0

\* C3: if transfer returns an error, the whole ledger (the caller's entry, the
\* recipient's and every other) is as it was before the call; the caller is
\* not debited when the credit would overflow.
C3_FailedTransferNoChange ==
    (LastIsTransfer /\ last.res # Ok) => balances = last.balances

C3_Witness ==
    /\ LastIsTransfer
    /\ last.res = BalanceOverflow(last.call.to)
    /\ last.caller # last.call.to
    /\ last.call.amount > 0
    /\ balance(last.balances, last.caller) >= last.call.amount

\* C4: transfer fails with InsufficientBalance exactly when amount exceeds the
\* caller's balance; otherwise with BalanceOverflow(to) exactly when the
\* recipient's balance plus amount exceeds the largest Balance; otherwise it
\* returns Ok.  Both balances are those before the call.
C4_ErrorCases ==
    LastIsTransfer =>
        last.res =
            IF last.call.amount > balance(last.balances, last.caller)
            THEN InsufficientBalance
            ELSE IF balance(last.balances, last.call.to) + last.call.amount
                      > balance_max
            THEN BalanceOverflow(last.call.to)
            ELSE Ok

C4_Witness ==
    /\ LastIsTransfer
    /\ last.call.amount > balance(last.balances, last.caller)
    /\ balance(last.balances, last.call.to) + last.call.amount > balance_max
    /\ last.res = InsufficientBalance

\* C5: after the bootstrap, the sum of all balances is the same in every state
\* reached by executing blocks.
C5_TotalConserved ==
    pc # "Boot" => TotalBalance(balances) = supply

\* C6: every account's nonce (an absent entry read as zero) is the number of
\* extrinsics it originated in blocks that passed the block-number check,
\* failed dispatches included.
C6_NonceCountsOriginated ==
    \A a \in Accounts : get_or_zero(nonce, a) = originated[a]

C6_Witness ==
    /\ last.kind = "extrinsic"
    /\ last.res # Ok
    /\ get_or_zero(pre.nonce, last.caller) >= 1
    /\ get_or_zero(nonce, last.caller) >= 2

\* C7: execute_block returns Ok exactly when the header's block number is the
\* block number before the call plus one, however many dispatches failed.
C7_OkIffNumberMatches ==
    pc \in {"Aborted", "Completed"} => (result = Ok <=> NumberMatches)

C7_Witness ==
    /\ pc = "Completed"
    /\ result = Ok
    /\ failed >= 1

\* C8: when the header's block number does not match, execute_block rejects
\* the block and processes none of its extrinsics: every nonce and every
\* balance is as it was before the call.
C8_RejectedBlockNoChange ==
    (InExecuteBlock /\ ~NumberMatches) =>
        /\ pc = "Aborted"
        /\ attempted = <<>>
        /\ nonce = pre.nonce
        /\ balances = pre.balances

C8_Witness ==
    /\ pc = "Aborted"
    /\ block.len > 0
    /\ balances # EmptyMap

\* C9: in a block that passes the check the extrinsics are attempted once
\* each, in index order, a failure stopping nothing: the ledger is the one
\* obtained by applying the transfers one by one, a failing one skipped.
C9_AllAttemptedInOrder ==
    /\ pc = "NumberValidated" =>
          /\ attempted = [k \in 1..i |-> k - 1]
          /\ balances = expected
    /\ pc = "Completed" =>
          /\ attempted = [k \in 1..block.len |-> k - 1]
          /\ balances = expected

C9_Witness ==
    /\ pc = "Completed"
    /\ block.len >= 2
    /\ failed >= 1
    /\ LastIsTransfer
    /\ last.res = Ok
    /\ last.call.amount > 0

\* C10: during execute_block a balance decreases only in the iteration of an
\* extrinsic whose caller is that account.
C10_OnlyCallerDebited ==
    InExecuteBlock =>
        IF last.kind = "extrinsic"
        THEN \A a \in Accounts :
                balance(balances, a) < balance(last.balances, a)
                    => a = last.caller
        ELSE balances = pre.balances

C10_Witness ==
    /\ LastIsTransfer
    /\ last.res = Ok
    /\ last.caller # last.call.to
    /\ balance(balances, last.caller) < balance(last.balances, last.caller)

\* C12: Runtime::dispatch(caller, call) increments the caller's nonce: after
\* a dispatch the caller's nonce is one more than when dispatch was entered.
C12_DispatchIncrementsNonce ==
    last.kind = "extrinsic" =>
        get_or_zero(nonce, last.caller)
          = get_or_zero(last.system.nonce, last.caller) + 1

C14_SetBalanceOverwrites ==
    last.kind = "set_balance" =>
        /\ balance(balances, last.who) = last.amount
        /\ \A a \in Accounts \ {last.who} :
              /\ a \in DOMAIN balances <=> a \in DOMAIN last.balances
              /\ balance(balances, a) = balance(last.balances, a)

C14_Witness ==
    /\ last.kind = "set_balance"
    /\ last.who \in DOMAIN last.balances
    /\ balance(last.balances, last.who) > 0
    /\ balance(last.balances, last.who) # last.amount
    /\ \E a \in Accounts \ {last.who} : balance(balances, a) > 0

\* C15: a rejected block leaves the block number incremented: it is the value
\* before the call plus one.  So after a rejection a block numbered (value
\* before + 1) is rejected too, and the block accepted next is the one
\* numbered (value before + 2).
C15_RejectionKeepsIncrement ==
    /\ pc = "Aborted" => block_number = pre.block_number + 1
    /\ (pc \in {"Aborted", "Completed"} /\ pre.after = "Aborted") =>
          /\ block.header.block_number = pre.before + 1 => pc = "Aborted"
          /\ pc = "Completed" <=> block.header.block_number = pre.before + 2

C15_Witness ==
    /\ pc = "Aborted"
    /\ pre.after = "Aborted"
    /\ block.header.block_number = pre.before + 1

\* C11: Scenario A.  From a fresh runtime with alice seeded to 100, block 1
\* with [alice -> bob: 30, alice -> charlie: 30] returns Ok and leaves
\* alice = 40, bob = 30, charlie = 30, alice's nonce = 2, block number = 1.
ScenarioAExecuted ==
    /\ pc \in {"Aborted", "Completed"}
    /\ pre.after = "Boot"
    /\ pre.balances = [a \in {alice} |-> SeedAmount]
    /\ block.header.block_number = 1
    /\ block.extrinsics = ScenarioABlock

C11_ScenarioA ==
    ScenarioAExecuted =>
        /\ result = Ok
        /\ balance(balances, alice) = 40
        /\ balance(balances, bob) = 30
        /\ balance(balances, charlie) = 30
        /\ get_or_zero(nonce, alice) = 2
        /\ block_number = 1

C11_Witness ==
    /\ ScenarioAExecuted
    /\ pc = "Completed"
    /\ i = 2

\* C16 as claimed: the block number starts at zero, never decreases and grows
\* by exactly one per executed block, also when the counter is at the largest
\* value of its type.
C16_GrowsByOneAlways ==
    /\ pc = "Boot" => block_number = 0
    /\ pc = "Pending" => block_number = pre.block_number
    /\ pc \in {"NumberValidated", "Aborted", "Completed", "Panicked"} =>
          block_number = pre.block_number + 1

\* C16 as amended: the block number starts at zero and grows by exactly one
\* per executed block while it is below the largest value of its type; at the
\* largest value the increment overflows: either the call panics and the
\* counter keeps its value, or the counter wraps to zero.
C16_GrowsByOneBelowMax ==
    /\ pc = "Boot" => block_number = 0
    /\ pc = "Pending" => block_number = pre.block_number
    /\ pc \in {"NumberValidated", "Aborted", "Completed"} =>
          block_number = IF pre.block_number < BlockNumberMax
                         THEN pre.block_number + 1
                         ELSE 0
    /\ pc = "Panicked" =>
          /\ pre.block_number = BlockNumberMax
          /\ block_number = pre.block_number

C16_Witness ==
    /\ pc \in {"NumberValidated", "Aborted", "Completed"}
    /\ pre.block_number = BlockNumberMax
    /\ block_number = 0

\* C18: block execution always finishes.  A pending block whose number does
\* not match leads to Aborted; any other pending block leads to Completed with
\* every extrinsic attempted, whether its dispatch was applied or rejected.
C18_BlockExecutionFinishes ==
    /\ (pc = "Pending" /\ ~NumberMatches) ~> (pc = "Aborted")
    /\ (pc = "Pending" /\ NumberMatches) ~>
          (pc = "Completed" /\ Len(attempted) = block.len)

C18_Witness ==
    /\ pc = "Completed"
    /\ block.len >= 2
    /\ failed >= 1
    /\ Len(attempted) = block.len
\* C13: a newly constructed runtime has block number zero and every account's
\* balance and nonce read as zero; a read of an account without an entry
\* returns zero and leaves the account without an entry.
C13_DefaultZero ==
    /\ ops = 0 =>
          /\ block_number = Zero
          /\ \A who \in Accounts :
                /\ read(balances, who).value = Zero
                /\ read(nonce, who).value = Zero
                /\ who \notin DOMAIN balances
                /\ who \notin DOMAIN nonce
          /\ observed # NoRead => observed.value = Zero
    /\ (observed # NoRead /\ observed.absent) =>
          /\ observed.value = Zero
          /\ observed.kind = "balance" => observed.who \notin DOMAIN balances
          /\ observed.kind = "nonce" => observed.who \notin DOMAIN nonce

C13_Witness ==
    /\ observed # NoRead
    /\ observed.kind = "balance"
    /\ observed.absent
    /\ balances # EmptyMap
    /\ nonce # EmptyMap
    /\ pc = "Completed"

====
